---- MODULE Spec2Model ----
(***************************************************************************)
(* Model of ipfs-pack-core (packages/ipfs-pack-core/src/index.ts) and of   *)
(* the bundler integrations that drive it.                                 *)
(*                                                                         *)
(* A directory is a function from paths to file contents. A path is a      *)
(* sequence of names, a name is the sequence of its dot-separated pieces   *)
(* (<<"a","ipfs","html">> is a.ipfs.html). The joined string of a path is  *)
(* the relative forward-slash path the code computes; names are taken to   *)
(* hold no slash and no backslash, so two paths have the same string       *)
(* exactly when they are the same sequence.                                *)
(*                                                                         *)
(* A CID is the value it hashes (SHA-256 is taken to be injective): a raw  *)
(* leaf is identified by its bytes, a dag-pb node by its links.            *)
(*                                                                         *)
(* An HTML file is taken to hold valid UTF-8, so the text read with        *)
(* readFileSync(path, 'utf8') and written back is the file's bytes.        *)
(***************************************************************************)
EXTENDS Integers, Sequences, FiniteSets, TLC

VARIABLES
  fs,     \* the output directory: path -> content
  env,    \* process.env of the run: urlStyle, debug, skipCar
  hist,   \* the operations run so far, oldest first, with what each returned
  car     \* the CAR write in progress: the writer's channel and the file stream

vars == <<fs, env, hist, car>>

-----------------------------------------------------------------------------
(* Bounds *)

MaxOps == 2      \* operations run on one directory
MaxLen == 2      \* tokens of an HTML text of the initial directory

-----------------------------------------------------------------------------
(* Names and paths *)

IndexHtml    == <<"index", "html">>
BundleCar    == <<"bundle", "car">>
ManifestJson == <<"ipfs-manifest", "json">>
DebugJson    == <<"ipfs-debug", "json">>
AppJs        == <<"app", "js">>
SubDir       == <<"sub">>
XJs          == <<"x", "js">>
FileBin      == <<"file", "bin">>

Last(s) == s[Len(s)]
Front(s) == SubSeq(s, 1, Len(s) - 1)

IsPrefix(d, p) == Len(d) <= Len(p) /\ SubSeq(p, 1, Len(d)) = d

\* path.join(outDir, name): the path of a file at the directory root
AtRoot(name) == <<name>>

\* String.prototype.toLowerCase on one piece of a name
ToLower(piece) == IF piece = "HTML" THEN "html" ELSE piece

RECURSIVE SetToSeq(_)
SetToSeq(S) ==
  IF S = {} THEN <<>>
  ELSE LET x == CHOOSE y \in S : TRUE IN <<x>> \o SetToSeq(S \ {x})

Range(s) == {s[i] : i \in 1..Len(s)}

-----------------------------------------------------------------------------
(* File contents *)

\* bytes of an asset, as the sequence of its 256 KiB chunks
Bin(chunks) == [kind |-> "bin", data |-> chunks]
\* utf8 text of an HTML file, as a sequence of tokens
Html(text) == [kind |-> "html", text |-> text]

\* fs.writeFileSync(path, content)
WriteFile(dir, p, c) == [q \in DOMAIN dir \cup {p} |-> IF q = p THEN c ELSE dir[q]]

-----------------------------------------------------------------------------
(* CIDs *)

NoCid == [codec |-> "none"]     \* null

RawCid(content) == [codec |-> "raw", hash |-> content]

\* the chunk blocks of a file: one raw leaf per chunk
Chunks(content) ==
  IF content.kind = "bin" /\ Len(content.data) > 1
    THEN [i \in 1..Len(content.data) |-> RawCid(Bin(<<content.data[i]>>))]
    ELSE <<>>

\* rawLeaves: a file of one chunk is its raw leaf, a larger one a dag-pb file node
FileCid(content) ==
  IF Chunks(content) = <<>> THEN RawCid(content)
  ELSE [codec |-> "dag-pb", chunks |-> Chunks(content)]

-----------------------------------------------------------------------------
(* Directory walker *)

\* the exclusion set without the manifest's name
excludedAtRootNoManifest == {<<BundleCar>>, <<DebugJson>>}

excludedAtRoot == {<<BundleCar>>, <<ManifestJson>>, <<DebugJson>>}

\* fs.readdirSync order: some fixed order for a given directory state
readdirOrder(paths) == SetToSeq(paths)

\* a walk that does not descend into subdirectories
walkTopLevel(dir) == {p \in DOMAIN dir : Len(p) = 1 /\ p \notin excludedAtRoot}

\* walk(outDir) of packDirectoryToCar, computeDirectoryManifest and
\* uploadDirectoryViaApi: every file that is not excluded by its relative path
walk(dir) == {p \in DOMAIN dir : p \notin excludedAtRoot}

-----------------------------------------------------------------------------
(* UnixFS importer, { cidVersion: 1, rawLeaves: true, wrapWithDirectory: true } *)

\* the directories of a file set: every proper prefix of a file path, "" included
DirsOf(paths) == UNION {{SubSeq(p, 1, k) : k \in 0..(Len(p) - 1)} : p \in paths} \cup {<<>>}

ChildNames(paths, d) == {p[Len(d) + 1] : p \in {q \in paths : Len(q) > Len(d) /\ IsPrefix(d, q)}}

RECURSIVE NodeCid(_, _, _)
NodeCid(dir, paths, p) ==
  IF p \in paths THEN FileCid(dir[p])
  ELSE [codec |-> "dag-pb",
        links |-> [n \in ChildNames(paths, p) |-> NodeCid(dir, paths, Append(p, n))]]

\* directories are flushed after the files, children before their parent
RECURSIVE DirOrder(_, _)
DirOrder(dirs, depth) ==
  IF depth < 0 THEN <<>>
  ELSE SetToSeq({d \in dirs : Len(d) = depth}) \o DirOrder(dirs, depth - 1)

MaxDepth(paths) == IF paths = {} THEN 0 ELSE CHOOSE n \in {Len(p) : p \in paths} : \A q \in paths : Len(q) <= n

\* the records the importer yields: one per file, then one per directory,
\* the wrapper directory (path "") last
importer(dir, paths) ==
  LET fileSeq == readdirOrder(paths)
      dirSeq  == DirOrder(DirsOf(paths), MaxDepth(paths))
  IN  [i \in 1..Len(fileSeq) |-> [path |-> fileSeq[i], cid |-> NodeCid(dir, paths, fileSeq[i])]]
      \o [i \in 1..Len(dirSeq) |-> [path |-> dirSeq[i], cid |-> NodeCid(dir, paths, dirSeq[i])]]

\* the blocks the importer puts for one record
BlocksOf(dir, paths, e) ==
  IF e.path \in paths THEN Chunks(dir[e.path]) \o <<e.cid>> ELSE <<e.cid>>

\* a store that keeps every put as an entry of its own
putNoDedup(map, key) == Append(map, key)
\* MemoryBlockstore.put: Map.set keeps one entry per key, in first-insertion order
put(map, key) == IF key \in Range(map) THEN map ELSE Append(map, key)

RECURSIVE putAll(_, _)
putAll(map, keys) == IF keys = <<>> THEN map ELSE putAll(put(map, keys[1]), Tail(keys))

RECURSIVE importBlocks(_, _, _, _)
importBlocks(dir, paths, entries, map) ==
  IF entries = <<>> THEN map
  ELSE importBlocks(dir, paths, Tail(entries), putAll(map, BlocksOf(dir, paths, entries[1])))

-----------------------------------------------------------------------------
(* packDirectoryToCar / computeDirectoryManifest *)

\* the for-await loop over the importer's records
RECURSIVE collect(_, _)
collect(entries, acc) ==
  IF entries = <<>> THEN acc
  ELSE LET e == entries[1] IN
    collect(Tail(entries),
      IF e.path = <<>>
        THEN [acc EXCEPT !.rootCidStr = e.cid]
        ELSE [acc EXCEPT !.fileCids =
                [q \in DOMAIN acc.fileCids \cup {e.path} |->
                   IF q = e.path THEN e.cid ELSE acc.fileCids[q]]])

EmptyMap == [q \in {} |-> NoCid]

\* JSON.stringify(manifest, null, 2)
ManifestFile(root, files) == [kind |-> "json", root |-> root, files |-> files]
DebugFile(root, files, entries) == [kind |-> "json", root |-> root, files |-> files, entries |-> entries]
\* packDirectoryToCar's debug file also holds blocks: numBlocksWritten
PackDebugFile(root, files, blocks, entries) ==
  [kind |-> "json", root |-> root, files |-> files, blocks |-> blocks, entries |-> entries]
\* the CAR stream: header roots, then one section per block
CarFile(roots, blocks) == [kind |-> "car", roots |-> roots, blocks |-> blocks]

Failed(dir, op) ==
  [op |-> op, ok |-> FALSE, before |-> dir, fs |-> dir, rootCid |-> NoCid, fileCids |-> EmptyMap,
   imported |-> {}, writes |-> <<>>]

\* the call as one step; fs is the directory once the CAR stream has finished
packDirectoryToCar(dir, carPath, manifestPath, debugEnabled) ==
  LET paths   == walk(dir)
      entries == importer(dir, paths)
      acc     == collect(entries, [rootCidStr |-> NoCid, fileCids |-> EmptyMap])
      blocks  == importBlocks(dir, paths, entries, <<>>)
      fs1     == WriteFile(dir, carPath, CarFile(<<acc.rootCidStr>>, blocks))
      fs2     == WriteFile(fs1, manifestPath, ManifestFile(acc.rootCidStr, acc.fileCids))
      fs3     == IF debugEnabled
                   THEN WriteFile(fs2, AtRoot(DebugJson),
                                  PackDebugFile(acc.rootCidStr, acc.fileCids, Len(blocks), entries))
                   ELSE fs2
  IN  IF acc.rootCidStr = NoCid THEN Failed(dir, "packDirectoryToCar")
      ELSE [op |-> "packDirectoryToCar", ok |-> TRUE, before |-> dir, fs |-> fs3,
            rootCid |-> acc.rootCidStr, fileCids |-> acc.fileCids, imported |-> paths,
            writes |-> <<carPath, manifestPath>> \o (IF debugEnabled THEN <<AtRoot(DebugJson)>> ELSE <<>>)]

computeDirectoryManifest(dir, manifestPath, debugEnabled) ==
  LET paths   == walk(dir)
      entries == importer(dir, paths)
      acc     == collect(entries, [rootCidStr |-> NoCid, fileCids |-> EmptyMap])
      fs2     == WriteFile(dir, manifestPath, ManifestFile(acc.rootCidStr, acc.fileCids))
      fs3     == IF debugEnabled
                   THEN WriteFile(fs2, AtRoot(DebugJson), DebugFile(acc.rootCidStr, acc.fileCids, entries))
                   ELSE fs2
  IN  IF acc.rootCidStr = NoCid THEN Failed(dir, "computeDirectoryManifest")
      ELSE [op |-> "computeDirectoryManifest", ok |-> TRUE, before |-> dir, fs |-> fs3,
            rootCid |-> acc.rootCidStr, fileCids |-> acc.fileCids, imported |-> paths,
            writes |-> <<manifestPath>> \o (IF debugEnabled THEN <<AtRoot(DebugJson)>> ELSE <<>>)]

-----------------------------------------------------------------------------
(* HTML text: a sequence of tokens.  A literal token is an opaque piece of  *)
(* text; an attribute token is  attr=<quote>url<quote>.  A URL is a prefix  *)
(* form ("rel": none, "dot": "./", "abs": "/") and its slash-separated      *)
(* segments, so two URLs are the same string exactly when they are the same *)
(* record.                                                                  *)

Lit(s) == [t |-> "lit", s |-> s]
HeadOpen   == Lit("<head>")
HeadClose  == Lit("</head>")
HeaderOpen == Lit("<header>")
Marker     == Lit("name=\"ipfs-root-cid\"")
Nl         == Lit("\n")

Seg(name)  == [n |-> name]      \* a path segment that is a file or directory name
CidSeg(c)  == [cid |-> c]       \* a path segment that is the string of a CID

Url(form, segs) == [form |-> form, segs |-> segs]
Attr(attr, quote, url) == [t |-> "attr", attr |-> attr, quote |-> quote, url |-> url]

Segs(rel) == [i \in 1..Len(rel) |-> Seg(rel[i])]

\* `<meta name="ipfs-root-cid" content="${rootCid}" />`
MetaTag(rootCid) == [t |-> "meta", cid |-> rootCid]
\* `<base href="${ipfsPrefix}">`
BaseTag(ipfsPrefix) == [t |-> "base", href |-> ipfsPrefix]

\* html.includes('name="ipfs-root-cid"')
includesMarker(html) == \E i \in 1..Len(html) : html[i] = Marker \/ html[i].t = "meta"
\* html.includes('<head')
includesHeadOpen(html) == \E i \in 1..Len(html) : html[i] \in {HeadOpen, HeaderOpen}
\* html.includes('</head>')
includesHeadClose(html) == \E i \in 1..Len(html) : html[i] = HeadClose

\* html.replace('</head>', `${tag}\n</head>`): the first occurrence only
replaceHeadClose(html, tag) ==
  IF ~includesHeadClose(html) THEN html
  ELSE LET i == CHOOSE j \in 1..Len(html) :
                  html[j] = HeadClose /\ \A k \in 1..(j - 1) : html[k] # HeadClose
       IN  SubSeq(html, 1, i - 1) \o <<tag, Nl, HeadClose>> \o SubSeq(html, i + 1, Len(html))

-----------------------------------------------------------------------------
(* stampIndexWithRootCID *)

\* a stamper without the already-stamped test
stampWithoutMarkerTest(dir, rootCid) ==
  LET indexPath == AtRoot(IndexHtml) IN
  IF indexPath \notin DOMAIN dir THEN [fs |-> dir, writes |-> <<>>]
  ELSE [fs |-> WriteFile(dir, indexPath,
                         Html(replaceHeadClose(dir[indexPath].text, MetaTag(rootCid)))),
        writes |-> <<indexPath>>]

stampIndexWithRootCID(dir, rootCid) ==
  LET indexPath == AtRoot(IndexHtml) IN
  IF indexPath \notin DOMAIN dir THEN [fs |-> dir, writes |-> <<>>]
  ELSE LET html == dir[indexPath].text IN
    IF includesMarker(html) THEN [fs |-> dir, writes |-> <<>>]
    ELSE [fs |-> WriteFile(dir, indexPath, Html(replaceHeadClose(html, MetaTag(rootCid)))),
          writes |-> <<indexPath>>]

-----------------------------------------------------------------------------
(* writeIpfsAddressedHtml *)

\* styleEnvRaw -> envStyle
envStyle(styleEnvRaw) ==
  IF styleEnvRaw = "" THEN "scheme-file"
  ELSE IF styleEnvRaw \in {"scheme-file", "file"} THEN "scheme-file"
  ELSE IF styleEnvRaw \in {"scheme", "ipfs"} THEN "scheme"
  ELSE "path"

\* ipfsPrefix, as the URL whose string it is
ipfsPrefix(urlStyle, rootCid) ==
  IF urlStyle = "scheme"
    THEN Url("rel", <<Seg(<<"ipfs:">>), Seg(<<"">>), CidSeg(rootCid), Seg(<<"">>)>>)
    ELSE Url("abs", <<Seg(<<"ipfs">>), CidSeg(rootCid), Seg(<<"">>)>>)

\* `${ipfsPrefix}${rel}`
prefixed(urlStyle, rootCid, rel) ==
  LET pre == ipfsPrefix(urlStyle, rootCid)
  IN  Url(pre.form, Front(pre.segs) \o Segs(rel))

\* `ipfs://${fileCid}`
fileUrl(fileCid) == Url("rel", <<Seg(<<"ipfs:">>), Seg(<<"">>), CidSeg(fileCid)>>)

\* a replacer that ignores the per-file style
replacementRootOnly(urlStyle, rootCid, files, rel) == prefixed(urlStyle, rootCid, rel)

\* the replacer callback of updated.replace(rx, ...)
replacement(urlStyle, rootCid, files, rel) ==
  IF urlStyle = "scheme-file"
    THEN IF rel \notin DOMAIN files THEN prefixed(urlStyle, rootCid, rel) ELSE fileUrl(files[rel])
    ELSE prefixed(urlStyle, rootCid, rel)

\* rx = (src|href)=(['"])<cand>\2 on one token
rxMatches(tok, cand) ==
  /\ tok.t = "attr"
  /\ tok.attr \in {"src", "href"}
  /\ tok.quote \in {"'", "\""}
  /\ tok.url = cand

\* updated.replace(rx, ...) with the g flag
replaceAll(text, cand, url) ==
  [i \in 1..Len(text) |-> IF rxMatches(text[i], cand) THEN Attr(text[i].attr, text[i].quote, url) ELSE text[i]]

candidates(rel) == <<Url("rel", Segs(rel)), Url("dot", Segs(rel)), Url("abs", Segs(rel))>>

RECURSIVE forCandidates(_, _, _)
forCandidates(text, cands, url) ==
  IF cands = <<>> THEN text
  ELSE forCandidates(replaceAll(text, cands[1], url), Tail(cands), url)

\* for (const rel of relPaths) for (const cand of candidates) ...
RECURSIVE forRelPaths(_, _, _, _, _)
forRelPaths(text, rels, urlStyle, rootCid, files) ==
  IF rels = <<>> THEN text
  ELSE forRelPaths(
         forCandidates(text, candidates(rels[1]), replacement(urlStyle, rootCid, files, rels[1])),
         Tail(rels), urlStyle, rootCid, files)

\* entry.name.toLowerCase().endsWith('.html')
isHtmlName(name) == Len(name) >= 2 /\ ToLower(Last(name)) = "html"

\* htmlPath.replace(/\.html$/i, '.ipfs.html') on the file name
replaceHtmlSuffix(name) ==
  IF Len(name) >= 2 /\ ToLower(Last(name)) = "html" THEN Front(name) \o <<"ipfs", "html">> ELSE name

\* a rewriter that writes its output over the file it read
outPathInPlace(htmlPath) == htmlPath
\* htmlPath.endsWith('.html') ? ... : `${htmlPath}.ipfs.html`
outPathOf(htmlPath) ==
  LET name == Last(htmlPath) IN
  Front(htmlPath) \o
    << IF Len(name) >= 2 /\ Last(name) = "html"
         THEN replaceHtmlSuffix(name)
         ELSE name \o <<"ipfs", "html">> >>

\* the else branch: no replacement happened
fallback(html, urlStyle, rootCid) ==
  IF urlStyle = "scheme-file" THEN html
  ELSE LET baseTag == BaseTag(ipfsPrefix(urlStyle, rootCid)) IN
    IF includesHeadOpen(html) THEN replaceHeadClose(html, baseTag)
    ELSE <<baseTag, Nl>> \o html

\* what is written next to one HTML file
rewritten(html, relPaths, urlStyle, rootCid, files) ==
  LET updated == forRelPaths(html, relPaths, urlStyle, rootCid, files)
  IN  IF updated # html THEN updated ELSE fallback(html, urlStyle, rootCid)

\* for (const htmlPath of htmlFiles): the directory after each file in turn,
\* with the log of what was read and written
RECURSIVE forHtmlFiles(_, _, _, _, _, _)
forHtmlFiles(acc, htmlFiles, relPaths, urlStyle, rootCid, files) ==
  IF htmlFiles = <<>> THEN acc
  ELSE LET htmlPath == htmlFiles[1]
           html     == acc.fs[htmlPath].text
           out      == rewritten(html, relPaths, urlStyle, rootCid, files)
           outPath  == outPathOf(htmlPath)
       IN  forHtmlFiles(
             [fs |-> WriteFile(acc.fs, outPath, Html(out)),
              log |-> Append(acc.log, [htmlPath |-> htmlPath, html |-> html,
                                       outPath |-> outPath, out |-> out])],
             Tail(htmlFiles), relPaths, urlStyle, rootCid, files)

\* JSON.parse(manifestRaw) succeeds
parses(content) == content.kind = "json"

writeIpfsAddressedHtml(dir, manifestPath, urlStyle) ==
  LET skipped == [fs |-> dir, ran |-> FALSE, htmlFiles |-> <<>>, log |-> <<>>] IN
  IF manifestPath \notin DOMAIN dir THEN skipped
  ELSE IF ~parses(dir[manifestPath]) THEN skipped
  ELSE LET manifest  == dir[manifestPath]
           rootCid   == manifest.root
           htmlFiles == readdirOrder({p \in DOMAIN dir : isHtmlName(Last(p))})
           relPaths  == readdirOrder(DOMAIN manifest.files)
           res       == forHtmlFiles([fs |-> dir, log |-> <<>>], htmlFiles, relPaths,
                                     urlStyle, rootCid, manifest.files)
       IN  IF rootCid = NoCid THEN skipped
           ELSE [fs |-> res.fs, ran |-> TRUE, htmlFiles |-> htmlFiles, log |-> res.log]

-----------------------------------------------------------------------------
(* uploadDirectoryViaApi *)

\* options?.wrapWithDirectory ?? true; every caller passes true
wrapWithDirectory == TRUE

\* a result record of the node: path (a string or undefined), name (set or
\* not) and cid
Result(hasPath, path, hasName, cid) ==
  [hasPath |-> hasPath, path |-> path, hasName |-> hasName, cid |-> cid]

\* client.addAll(sources, { wrapWithDirectory, cidVersion: 1, rawLeaves: true })
\* of a node that imports as the local importer does
addAll(dir, sources) ==
  LET entries == importer(dir, sources) IN
  [i \in 1..Len(entries) |-> Result(TRUE, entries[i].path, FALSE, entries[i].cid)]

\* the for-await loop over the node's result records
RECURSIVE uploadCollect(_, _)
uploadCollect(results, acc) ==
  IF results = <<>> THEN acc
  ELSE LET r == results[1] IN
    uploadCollect(Tail(results),
      IF (r.hasPath /\ r.path = <<>>) \/ (wrapWithDirectory /\ ~r.hasPath /\ ~r.hasName)
        THEN [acc EXCEPT !.rootCid = r.cid]
        ELSE IF r.hasPath /\ r.path # <<>>
          THEN [acc EXCEPT !.fileCids =
                  [q \in DOMAIN acc.fileCids \cup {r.path} |->
                     IF q = r.path THEN r.cid ELSE acc.fileCids[q]]]
          ELSE acc)

\* the loop, the fallback lookup of fileCids[''] and the final test
uploadResult(results, posted) ==
  LET acc0 == uploadCollect(results, [rootCid |-> NoCid, fileCids |-> EmptyMap])
      acc  == IF acc0.rootCid = NoCid /\ <<>> \in DOMAIN acc0.fileCids
                THEN [acc0 EXCEPT !.rootCid = acc0.fileCids[<<>>]]
                ELSE acc0
  IN  IF acc.rootCid = NoCid
        THEN [ok |-> FALSE, rootCid |-> NoCid, fileCids |-> EmptyMap, posted |-> posted]
        ELSE [ok |-> TRUE, rootCid |-> acc.rootCid, fileCids |-> acc.fileCids, posted |-> posted]

\* server: "same" answers every request, "down" fails the transport
uploadDirectoryViaApi(dir, server) ==
  LET sources == walk(dir) IN
  IF server = "down"
    THEN [ok |-> FALSE, rootCid |-> NoCid, fileCids |-> EmptyMap, posted |-> sources]
    ELSE uploadResult(addAll(dir, sources), sources)

-----------------------------------------------------------------------------
(* The bundler integration: closeBundle of the Vite plugin, the afterEmit   *)
(* hook of the Webpack plugin and the Next postbuild script run the same    *)
(* sequence of calls.                                                       *)

\* shouldSkipCar, doUpload
truthy(v) == v \in {"1", "true", "yes"}

\* an integration whose upload block has no try/catch
closeBundleNoCatch(dir, e, server) ==
  LET manifestPath == AtRoot(ManifestJson)
      packed   == IF truthy(e.IPFS_PACK_SKIP_CAR)
                    THEN computeDirectoryManifest(dir, manifestPath, e.IPFS_PACK_DEBUG)
                    ELSE packDirectoryToCar(dir, AtRoot(BundleCar), manifestPath, e.IPFS_PACK_DEBUG)
      stamped  == stampIndexWithRootCID(packed.fs, packed.rootCid)
      rewrote  == writeIpfsAddressedHtml(stamped.fs, manifestPath, envStyle(e.IPFS_PACK_URL_STYLE))
      doUpload == truthy(e.IPFS_UPLOAD)
      upload   == uploadDirectoryViaApi(rewrote.fs, server)
  IN  IF ~packed.ok
        THEN [op |-> "closeBundle", ok |-> FALSE, before |-> dir, fs |-> dir,
              warnings |-> <<>>, stdout |-> <<>>]
        ELSE [op |-> "closeBundle", ok |-> ~doUpload \/ upload.ok, before |-> dir, fs |-> rewrote.fs,
              rootCid |-> packed.rootCid, fileCids |-> packed.fileCids,
              imported |-> packed.imported, packedFs |-> packed.fs, log |-> rewrote.log,
              doUpload |-> doUpload, stdout |-> <<>>,
              upload |-> IF doUpload THEN upload
                         ELSE [ok |-> FALSE, rootCid |-> NoCid, fileCids |-> EmptyMap, posted |-> {}],
              warnings |-> IF doUpload
                             THEN IF upload.ok THEN <<"report", "IPFS root CID">> ELSE <<>>
                             ELSE <<"IPFS root CID">>]
\* Vite: closeBundle; the messages go to this.warn
closeBundle(dir, e, server) ==
  LET carPath      == AtRoot(BundleCar)
      manifestPath == AtRoot(ManifestJson)
      packed   == IF truthy(e.IPFS_PACK_SKIP_CAR)
                    THEN computeDirectoryManifest(dir, manifestPath, e.IPFS_PACK_DEBUG)
                    ELSE packDirectoryToCar(dir, carPath, manifestPath, e.IPFS_PACK_DEBUG)
      stamped  == stampIndexWithRootCID(packed.fs, packed.rootCid)
      rewrote  == writeIpfsAddressedHtml(stamped.fs, manifestPath, envStyle(e.IPFS_PACK_URL_STYLE))
      doUpload == truthy(e.IPFS_UPLOAD)
      upload   == uploadDirectoryViaApi(rewrote.fs, server)
  IN  IF ~packed.ok
        THEN [op |-> "closeBundle", ok |-> FALSE, before |-> dir, fs |-> dir,
              warnings |-> <<>>, stdout |-> <<>>]
        ELSE [op |-> "closeBundle", ok |-> TRUE, before |-> dir, fs |-> rewrote.fs,
              rootCid |-> packed.rootCid, fileCids |-> packed.fileCids,
              imported |-> packed.imported, packedFs |-> packed.fs, log |-> rewrote.log,
              doUpload |-> doUpload, stdout |-> <<>>,
              upload |-> IF doUpload THEN upload
                         ELSE [ok |-> FALSE, rootCid |-> NoCid, fileCids |-> EmptyMap, posted |-> {}],
              warnings |-> (IF doUpload
                              THEN IF upload.ok THEN <<"report">> ELSE <<"IPFS upload failed">>
                              ELSE <<>>) \o <<"IPFS root CID">>]

\* Webpack: the afterEmit hook; the same calls in the same order, the messages
\* are pushed to compilation.warnings
afterEmit(dir, e, server) == [closeBundle(dir, e, server) EXCEPT !.op = "afterEmit"]

\* Next: the postbuild script; the same calls, but the root CID goes to
\* console.log before the upload block, the report to console.log after it,
\* and only the failure to console.warn
IsReport(m) == m = "report"
IsFailure(m) == m = "IPFS upload failed"

postbuildChannels(r) ==
  [r EXCEPT !.op = "postbuild",
            !.stdout = (IF "rootCid" \in DOMAIN r THEN <<"IPFS root CID">> ELSE <<>>)
                         \o SelectSeq(r.warnings, IsReport),
            !.warnings = SelectSeq(@, IsFailure)]

postbuild(dir, e, server) == postbuildChannels(closeBundle(dir, e, server))

-----------------------------------------------------------------------------
(* Actions: one call of an exported function, or one run of the integration *)

CanRun == Len(hist) < MaxOps

\* no CAR write has been started
NoCar == [pc |-> "idle"]

Record(r) == /\ fs' = r.fs
             /\ hist' = Append(hist, r)
             /\ UNCHANGED <<env, car>>

CallPackDirectoryToCar ==
  /\ CanRun
  /\ Record(packDirectoryToCar(fs, AtRoot(BundleCar), AtRoot(ManifestJson), env.IPFS_PACK_DEBUG))

CallComputeDirectoryManifest ==
  /\ CanRun
  /\ Record(computeDirectoryManifest(fs, AtRoot(ManifestJson), env.IPFS_PACK_DEBUG))

\* the root CIDs a caller passes to the stamper: that of the last pack, or another
OtherCids == {[codec |-> "dag-pb", links |-> (AppJs :> RawCid(Bin(<<c>>)))] : c \in {"c1", "c2"}}

LastRoots ==
  {hist[i].rootCid : i \in {j \in 1..Len(hist) :
      hist[j].op \in {"packDirectoryToCar", "computeDirectoryManifest"} /\ hist[j].ok}}

CallStampIndexWithRootCID ==
  /\ CanRun
  /\ \E rootCid \in LastRoots \cup OtherCids :
       LET r == stampIndexWithRootCID(fs, rootCid) IN
       Record([op |-> "stampIndexWithRootCID", ok |-> TRUE, before |-> fs, fs |-> r.fs,
               rootCid |-> rootCid, writes |-> r.writes])

CallWriteIpfsAddressedHtml ==
  /\ CanRun
  /\ LET urlStyle == envStyle(env.IPFS_PACK_URL_STYLE)
         r == writeIpfsAddressedHtml(fs, AtRoot(ManifestJson), urlStyle) IN
     Record([op |-> "writeIpfsAddressedHtml", ok |-> TRUE, before |-> fs, fs |-> r.fs,
             urlStyle |-> urlStyle, ran |-> r.ran, htmlFiles |-> r.htmlFiles, log |-> r.log])

CallUploadDirectoryViaApi ==
  /\ CanRun
  /\ \E server \in {"same", "down"} :
       LET r == uploadDirectoryViaApi(fs, server) IN
       Record([op |-> "uploadDirectoryViaApi", ok |-> r.ok, before |-> fs, fs |-> fs,
               rootCid |-> r.rootCid, fileCids |-> r.fileCids, posted |-> r.posted])

\* what a node can answer: the wrapper with path '', with the directory's
\* name as its path, or with no path and no name; a file; a record with only
\* a name
DistDir == <<"dist">>

ResultRecords(dir) ==
  LET root == NodeCid(dir, walk(dir), <<>>) IN
  { Result(TRUE, <<>>, FALSE, root), Result(TRUE, <<DistDir>>, TRUE, root),
    Result(FALSE, <<>>, FALSE, root), Result(FALSE, <<>>, TRUE, root),
    Result(TRUE, <<AppJs>>, TRUE, RawCid(Bin(<<"c1">>))),
    Result(TRUE, <<DistDir, AppJs>>, TRUE, RawCid(Bin(<<"c1">>))) }

MaxResults == 2

\* uploadDirectoryViaApi against a node that answers with any records
CallUploadToNode ==
  /\ CanRun
  /\ \E n \in 0..MaxResults : \E results \in [1..n -> ResultRecords(fs)] :
       LET r == uploadResult(results, walk(fs)) IN
       Record([op |-> "uploadDirectoryViaApi", ok |-> r.ok, before |-> fs, fs |-> fs,
               rootCid |-> r.rootCid, fileCids |-> r.fileCids, posted |-> r.posted,
               results |-> results])

RunCloseBundle ==
  /\ CanRun
  /\ \E server \in {"same", "down"} : Record(closeBundle(fs, env, server))

RunAfterEmit ==
  /\ CanRun
  /\ \E server \in {"same", "down"} : Record(afterEmit(fs, env, server))

RunPostbuild ==
  /\ CanRun
  /\ \E server \in {"same", "down"} : Record(postbuild(fs, env, server))

\* the stamper and the rewriter run one after the other on the manifest's root,
\* in the integrations' order (stamper first) or in the other order
stampThenRewrite(dir, rootCid, urlStyle) ==
  LET stamped == stampIndexWithRootCID(dir, rootCid)
      rewrote == writeIpfsAddressedHtml(stamped.fs, AtRoot(ManifestJson), urlStyle)
  IN  [op |-> "stampThenRewrite", ok |-> TRUE, before |-> dir, fs |-> rewrote.fs,
       rootCid |-> rootCid, urlStyle |-> urlStyle, stamped |-> stamped.writes # <<>>,
       log |-> rewrote.log]

rewriteThenStamp(dir, rootCid, urlStyle) ==
  LET rewrote == writeIpfsAddressedHtml(dir, AtRoot(ManifestJson), urlStyle)
      stamped == stampIndexWithRootCID(rewrote.fs, rootCid)
  IN  [op |-> "rewriteThenStamp", ok |-> TRUE, before |-> dir, fs |-> stamped.fs,
       rootCid |-> rootCid, urlStyle |-> urlStyle, stamped |-> stamped.writes # <<>>,
       log |-> rewrote.log]

CallStampThenRewrite ==
  /\ CanRun
  /\ \E rootCid \in LastRoots :
       Record(stampThenRewrite(fs, rootCid, envStyle(env.IPFS_PACK_URL_STYLE)))

CallRewriteThenStamp ==
  /\ CanRun
  /\ \E rootCid \in LastRoots :
       Record(rewriteThenStamp(fs, rootCid, envStyle(env.IPFS_PACK_URL_STYLE)))

-----------------------------------------------------------------------------
(* The CAR write of packDirectoryToCar, step by step.  CarWriter.create      *)
(* returns a writer and an output iterator joined by a channel: a write      *)
(* queues a chunk and its promise resolves when the iterator has taken the   *)
(* queue empty; the header is written on create, and a block's section is    *)
(* taken as one chunk.  carWrite is a file stream: write() buffers a chunk   *)
(* and returns, the file system takes buffered chunks later, and the stream  *)
(* is finished when end() was called and the buffer is empty.                *)

\* the chunks the writer produces: the header, then one section per block
Header(root) == [hdr |-> <<root>>]
Section(cid) == [block |-> cid]
CarChunks(c) == <<Header(c.root)>> \o [k \in 1..Len(c.store) |-> Section(c.store[k])]

\* the bytes on disk after n chunks were taken from the stream's buffer
CarOnDisk(c, n) ==
  IF n = 0 THEN CarFile(<<>>, <<>>) ELSE CarFile(<<c.root>>, SubSeq(c.store, 1, n - 1))

\* lines 43-115: walk, import, CarWriter.create, createWriteStream, and the
\* start of the consumer
StartCarWrite ==
  /\ car.pc = "idle"
  /\ LET paths   == walk(fs)
         entries == importer(fs, paths)
         acc     == collect(entries, [rootCidStr |-> NoCid, fileCids |-> EmptyMap])
     IN  car' = [pc |-> "put", before |-> fs, imported |-> paths, entries |-> entries,
                 fileCids |-> acc.fileCids, root |-> acc.rootCidStr,
                 store |-> importBlocks(fs, paths, entries, <<>>), next |-> 1,
                 queue |-> <<Header(acc.rootCidStr)>>, draining |-> TRUE, ended |-> FALSE,
                 consumer |-> "reading", written |-> <<>>, flushed |-> 0,
                 streamEnded |-> FALSE, finished |-> FALSE]
  /\ UNCHANGED <<fs, env, hist>>

\* await writer.put({ cid, bytes }): after the previous write has drained
WriterPut ==
  /\ car.pc = "put" /\ ~car.draining /\ car.next <= Len(car.store)
  /\ car' = [car EXCEPT !.queue = Append(@, Section(car.store[car.next])),
                         !.next = @ + 1, !.draining = TRUE]
  /\ UNCHANGED <<fs, env, hist>>

\* await writer.close(): after the last put has drained
WriterClose ==
  /\ car.pc = "put" /\ ~car.draining /\ car.next > Len(car.store)
  /\ car' = [car EXCEPT !.pc = "close", !.ended = TRUE, !.draining = TRUE]
  /\ UNCHANGED <<fs, env, hist>>

\* for await (const chunk of out) carWrite.write(chunk)
ConsumerWrite ==
  /\ car.pc \in {"put", "close"} /\ car.consumer = "reading" /\ car.queue # <<>>
  /\ car' = [car EXCEPT !.queue = Tail(@), !.written = Append(@, Head(car.queue)),
                         !.draining = IF Tail(car.queue) = <<>> THEN FALSE ELSE @]
  /\ UNCHANGED <<fs, env, hist>>

\* the iterator is done; carWrite.end()
ConsumerEnd ==
  /\ car.pc = "close" /\ car.consumer = "reading" /\ car.queue = <<>> /\ car.ended
  /\ car' = [car EXCEPT !.consumer = "done", !.draining = FALSE, !.streamEnded = TRUE]
  /\ UNCHANGED <<fs, env, hist>>

\* the file system takes one buffered chunk
StreamFlush ==
  /\ car.pc # "idle" /\ car.flushed < Len(car.written)
  /\ car' = [car EXCEPT !.flushed = @ + 1]
  /\ fs' = WriteFile(fs, AtRoot(BundleCar), CarOnDisk(car, car.flushed + 1))
  /\ UNCHANGED <<env, hist>>

\* the stream emits 'finish'
StreamFinish ==
  /\ car.pc # "idle" /\ car.streamEnded /\ ~car.finished /\ car.flushed = Len(car.written)
  /\ car' = [car EXCEPT !.finished = TRUE]
  /\ UNCHANGED <<fs, env, hist>>

\* await writeOutPromise has returned; lines 131-146: the manifest, the debug
\* file and the result
CarWriteReturn ==
  /\ car.pc = "close" /\ ~car.draining /\ car.consumer = "done"
  /\ LET manifestPath == AtRoot(ManifestJson)
         fs2 == WriteFile(fs, manifestPath, ManifestFile(car.root, car.fileCids))
         fs3 == IF env.IPFS_PACK_DEBUG
                  THEN WriteFile(fs2, AtRoot(DebugJson),
                                 PackDebugFile(car.root, car.fileCids, car.next - 1, car.entries))
                  ELSE fs2
     IN  /\ fs' = fs3
         /\ hist' = Append(hist,
              [op |-> "packDirectoryToCar", ok |-> TRUE, before |-> car.before, fs |-> fs3,
               rootCid |-> car.root, fileCids |-> car.fileCids, imported |-> car.imported,
               writes |-> <<AtRoot(BundleCar), manifestPath>>
                            \o (IF env.IPFS_PACK_DEBUG THEN <<AtRoot(DebugJson)>> ELSE <<>>),
               flushed |-> car.flushed, finished |-> car.finished])
  /\ car' = [car EXCEPT !.pc = "returned"]
  /\ UNCHANGED env

-----------------------------------------------------------------------------
(* Initial states: a build output directory and the environment of the run *)

\* every directory that holds some of the paths of cands, each with one of its contents
RECURSIVE DirsOver(_, _)
DirsOver(cands, paths) ==
  IF paths = {} THEN {[q \in {} |-> Bin(<<>>)]}
  ELSE LET p    == CHOOSE q \in paths : TRUE
           rest == DirsOver(cands, paths \ {p})
       IN  rest \cup {(p :> c) @@ d : c \in cands[p], d \in rest}

Dirs(cands) == DirsOver(cands, DOMAIN cands)

DefaultEnv ==
  [IPFS_PACK_URL_STYLE |-> "", IPFS_PACK_DEBUG |-> FALSE,
   IPFS_PACK_SKIP_CAR |-> "true", IPFS_UPLOAD |-> "false"]

AppRef(attr, quote, form) == Attr(attr, quote, Url(form, Segs(<<AppJs>>)))

HtmlTokens ==
  { HeadOpen, HeaderOpen, HeadClose, Marker, Lit("x"),
    AppRef("src", "\"", "rel"), AppRef("href", "'", "dot"), AppRef("src", "'", "abs"),
    AppRef("SRC", "\"", "rel"),
    Attr("href", "\"", Url("rel", Segs(<<SubDir>>))),
    Attr("src", "\"", Url("rel", Segs(<<<<"missing", "js">>>>))) }

HtmlTexts == UNION {[1..n -> HtmlTokens] : n \in 0..MaxLen}

\* assets, stale outputs of an earlier tool at the root, the same names in a subdirectory
PackCands ==
  (<<AppJs>> :> {Bin(<<"c1">>)}) @@
  (<<BundleCar>> :> {Bin(<<"c2">>)}) @@
  (<<ManifestJson>> :> {Bin(<<"c2">>)}) @@
  (<<DebugJson>> :> {Bin(<<"c2">>)}) @@
  (<<SubDir, BundleCar>> :> {Bin(<<"c1">>)}) @@
  (<<SubDir, ManifestJson>> :> {Bin(<<"c2">>)}) @@
  (<<SubDir, DebugJson>> :> {Bin(<<"c2">>)}) @@
  (<<SubDir, <<"dir">>, FileBin>> :> {Bin(<<"c1", "c2">>)})

InitPack ==
  /\ fs \in Dirs(PackCands)
  /\ env \in {[DefaultEnv EXCEPT !.IPFS_PACK_DEBUG = d] : d \in BOOLEAN}
  /\ hist = <<>>
  /\ car = NoCar

NextPack == CallPackDirectoryToCar \/ CallComputeDirectoryManifest

SpecPack == InitPack /\ [][NextPack]_vars

\* index.html with any text
InitStamp ==
  /\ fs \in Dirs((<<IndexHtml>> :> {Html(t) : t \in HtmlTexts}) @@ (<<AppJs>> :> {Bin(<<"c1">>)}))
  /\ env = DefaultEnv
  /\ hist = <<>>
  /\ car = NoCar

NextStamp == CallStampIndexWithRootCID

SpecStamp == InitStamp /\ [][NextStamp]_vars

\* HTML files with any text next to the assets they refer to
RewriteCands ==
  (<<<<"index", "ipfs", "html">>>> :> {Html(<<Lit("x")>>)})

InitRewrite ==
  /\ \E t \in HtmlTexts, d \in Dirs(RewriteCands) :
       fs = (<<IndexHtml>> :> Html(t)) @@ (<<AppJs>> :> Bin(<<"c1">>))
            @@ (<<SubDir, XJs>> :> Bin(<<"c2">>))
            @@ (<<<<"B", "HTML">>>> :> Html(<<AppRef("src", "\"", "rel")>>)) @@ d
  /\ env \in {[DefaultEnv EXCEPT !.IPFS_PACK_URL_STYLE = st] : st \in {"", "scheme", "path"}}
  /\ hist = <<>>
  /\ car = NoCar

NextRewrite == CallComputeDirectoryManifest \/ CallWriteIpfsAddressedHtml

SpecRewrite == InitRewrite /\ [][NextRewrite]_vars

\* the whole program on a small site
SiteCands ==
  (<<IndexHtml>> :> {Html(<<HeadOpen, AppRef("src", "\"", "rel"), HeadClose>>),
                     Html(<<Lit("x")>>)}) @@
  (<<AppJs>> :> {Bin(<<"c1">>)}) @@
  (<<SubDir, XJs>> :> {Bin(<<"c2">>)})

Init ==
  /\ fs \in Dirs(SiteCands)
  /\ env \in [IPFS_PACK_URL_STYLE : {"", "scheme", "path"}, IPFS_PACK_DEBUG : {FALSE},
              IPFS_PACK_SKIP_CAR : {"true", "false"}, IPFS_UPLOAD : {"true", "false"}]
  /\ hist = <<>>
  /\ car = NoCar

Next ==
  \/ CallPackDirectoryToCar
  \/ CallComputeDirectoryManifest
  \/ CallStampIndexWithRootCID
  \/ CallWriteIpfsAddressedHtml
  \/ CallUploadDirectoryViaApi
  \/ RunCloseBundle

Spec == Init /\ [][Next]_vars

\* the stamper and the rewriter in both orders, on HTML with any text
NextOrder == CallComputeDirectoryManifest \/ CallStampThenRewrite \/ CallRewriteThenStamp

SpecOrder == InitRewrite /\ [][NextOrder]_vars

\* the upload against any node
InitUpload ==
  /\ fs \in Dirs((<<AppJs>> :> {Bin(<<"c1">>)}) @@ (<<SubDir, XJs>> :> {Bin(<<"c2">>)}))
  /\ env = DefaultEnv
  /\ hist = <<>>
  /\ car = NoCar

NextUpload == CallUploadToNode \/ CallUploadDirectoryViaApi

SpecUpload == InitUpload /\ [][NextUpload]_vars

\* one CAR write, step by step
CarCands ==
  (<<AppJs>> :> {Bin(<<"c1">>)}) @@
  (<<SubDir, BundleCar>> :> {Bin(<<"c1">>)}) @@
  (<<SubDir, <<"dir">>, FileBin>> :> {Bin(<<"c1", "c2">>)})

InitCar ==
  /\ fs \in Dirs(CarCands)
  /\ env \in {[DefaultEnv EXCEPT !.IPFS_PACK_DEBUG = d, !.IPFS_PACK_SKIP_CAR = "false"] : d \in BOOLEAN}
  /\ hist = <<>>
  /\ car = NoCar

\* a step of a CAR write that has started
CarStep ==
  \/ WriterPut
  \/ WriterClose
  \/ ConsumerWrite
  \/ ConsumerEnd
  \/ StreamFlush
  \/ StreamFinish
  \/ CarWriteReturn

NextCar == StartCarWrite \/ CarStep

SpecCar == InitCar /\ [][NextCar]_vars

\* the event loop runs a task whenever one is ready, and the file system
\* completes the writes it was given: the CAR write never stops while a step
\* of it can be taken
FairCar == WF_vars(CarStep)

SpecCarFair == SpecCar /\ FairCar

\* the three integrations on the small site
InitShim ==
  /\ fs \in Dirs(SiteCands)
  /\ env \in [IPFS_PACK_URL_STYLE : {""}, IPFS_PACK_DEBUG : {FALSE},
              IPFS_PACK_SKIP_CAR : {"true", "false"}, IPFS_UPLOAD : {"true", "false"}]
  /\ hist = <<>>
  /\ car = NoCar

NextShim == RunCloseBundle \/ RunAfterEmit \/ RunPostbuild

SpecShim == InitShim /\ [][NextShim]_vars

-----------------------------------------------------------------------------
(* Properties *)

IsPack(r) == r.op \in {"packDirectoryToCar", "computeDirectoryManifest"}
IsCloseBundle(r) == r.op = "closeBundle"
IsStamp(r) == r.op = "stampIndexWithRootCID"
IsRewrite(r) == r.op = "writeIpfsAddressedHtml"

Ops == 1..Len(hist)
Successive == {i \in Ops : i + 1 \in Ops}

\* the names the pack writes at the directory root
OutputsAtRoot == {<<<<"bundle", "car">>>>, <<<<"ipfs-manifest", "json">>>>, <<<<"ipfs-debug", "json">>>>}

ManifestOf(dir) == dir[<<<<"ipfs-manifest", "json">>>>]

\* C1: a pack run right after a pack returns the same root CID and writes the
\* same manifest; the three output names are never imported at the root and
\* always imported in a subdirectory.
C1_PackIdempotent ==
  /\ \A i \in Successive :
       (IsPack(hist[i]) /\ IsPack(hist[i + 1]) /\ hist[i].ok) =>
         /\ hist[i + 1].ok
         /\ hist[i + 1].rootCid = hist[i].rootCid
         /\ hist[i + 1].fileCids = hist[i].fileCids
         /\ ManifestOf(hist[i + 1].fs) = ManifestOf(hist[i].fs)
  /\ \A i \in Ops :
       (IsPack(hist[i]) /\ hist[i].ok) =>
         /\ \A p \in OutputsAtRoot : p \notin hist[i].imported
         /\ \A p \in DOMAIN hist[i].before : Len(p) > 1 => p \in hist[i].imported

C1_Witness ==
  /\ Len(hist) >= 2
  /\ hist[1].op = "packDirectoryToCar" /\ hist[1].ok
  /\ IsPack(hist[2]) /\ hist[2].ok
  /\ <<SubDir, BundleCar>> \in hist[2].imported
  /\ <<AppJs>> \in hist[2].imported
  /\ <<DebugJson>> \in DOMAIN hist[2].before

\* C2: two runs of the integration in succession return the same root CID and
\* import the same file set.
C2_PipelineRootStable ==
  \A i \in Successive :
    (IsCloseBundle(hist[i]) /\ IsCloseBundle(hist[i + 1]) /\ hist[i].ok) =>
      /\ hist[i + 1].ok
      /\ hist[i + 1].imported = hist[i].imported
      /\ hist[i + 1].rootCid = hist[i].rootCid

\* C3: after a successful pack every file of the directory that is not one of
\* the three root-level output names is a key of the manifest's files, and the
\* returned fileCids is that map.
C3_ManifestComplete ==
  \A i \in Ops :
    (IsPack(hist[i]) /\ hist[i].ok) =>
      /\ \A p \in DOMAIN hist[i].before :
           p \notin OutputsAtRoot => p \in DOMAIN ManifestOf(hist[i].fs).files
      /\ ManifestOf(hist[i].fs).files = hist[i].fileCids

C3_Witness ==
  /\ Len(hist) >= 1
  /\ IsPack(hist[1]) /\ hist[1].ok
  /\ <<SubDir, <<"dir">>, FileBin>> \in DOMAIN ManifestOf(fs).files
  /\ <<SubDir, ManifestJson>> \in DOMAIN ManifestOf(fs).files
  /\ <<ManifestJson>> \in DOMAIN hist[1].before

\* C4: the keys of the manifest's files are exactly the paths of the input
\* files; no directory record becomes a key.
C4_ManifestExact ==
  \A i \in Ops :
    (IsPack(hist[i]) /\ hist[i].ok) =>
      DOMAIN ManifestOf(hist[i].fs).files = DOMAIN hist[i].before \ OutputsAtRoot

\* C5: the rewriter writes to no path of an HTML file it enumerated, and the
\* content of every such file is what it was when the rewriter started.
C5_RewriterSafe ==
  \A i \in Ops :
    IsRewrite(hist[i]) =>
      /\ \A k \in 1..Len(hist[i].log) : hist[i].log[k].outPath \notin Range(hist[i].htmlFiles)
      /\ \A p \in Range(hist[i].htmlFiles) : hist[i].fs[p] = hist[i].before[p]

\* C6: when the integration uploads to a node that imports as the local
\* importer does, the uploaded root CID is the locally computed one and the
\* files posted are the files imported.
C6_UploadRootAgrees ==
  \A i \in Ops :
    (IsCloseBundle(hist[i]) /\ hist[i].ok /\ hist[i].doUpload /\ hist[i].upload.ok) =>
      /\ hist[i].upload.rootCid = hist[i].rootCid
      /\ hist[i].upload.posted = hist[i].imported

\* C7: a pack of a directory with no file to import fails and writes nothing.
C7_ZeroFilesFatal ==
  \A i \in Ops :
    (IsPack(hist[i]) /\ DOMAIN hist[i].before \subseteq OutputsAtRoot) =>
      /\ ~hist[i].ok
      /\ hist[i].fs = hist[i].before

IndexOf(dir) == dir[<<<<"index", "html">>>>]
HasIndex(dir) == <<<<"index", "html">>>> \in DOMAIN dir

MetaTags(text) == {k \in 1..Len(text) : text[k].t = "meta"}

RefersTo(tok, keys) ==
  {rel \in keys : \E form \in {"rel", "dot", "abs"} :
      tok.url = [form |-> form, segs |-> [k \in 1..Len(rel) |-> [n |-> rel[k]]]]}

IsRef(tok, keys) ==
  tok.t = "attr" /\ tok.attr \in {"src", "href"} /\ RefersTo(tok, keys) # {}

\* /ipfs/<rootCid>/<rel>, ipfs://<rootCid>/<rel>, ipfs://<fileCid>
Addressed(urlStyle, manifest, rel) ==
  LET relSegs == [k \in 1..Len(rel) |-> [n |-> rel[k]]] IN
  IF urlStyle = "path"
    THEN [form |-> "abs", segs |-> <<[n |-> <<"ipfs">>], [cid |-> manifest.root]>> \o relSegs]
  ELSE IF urlStyle = "scheme"
    THEN [form |-> "rel",
          segs |-> <<[n |-> <<"ipfs:">>], [n |-> <<"">>], [cid |-> manifest.root]>> \o relSegs]
  ELSE [form |-> "rel",
        segs |-> <<[n |-> <<"ipfs:">>], [n |-> <<"">>], [cid |-> manifest.files[rel]]>>]

\* C9: in what the rewriter writes for an HTML file, every src= or href= value
\* that is rel, ./rel or /rel for a manifest path rel is the address of rel
\* under the style, within the same quotes, and every other token is the
\* source's.
C9_RewriteCorrect ==
  \A i \in Ops :
    (IsRewrite(hist[i]) /\ hist[i].ran) =>
      LET manifest == ManifestOf(hist[i].before)
          keys     == DOMAIN manifest.files
      IN \A e \in Range(hist[i].log) :
           (\E k \in 1..Len(e.html) : IsRef(e.html[k], keys)) =>
             /\ Len(e.out) = Len(e.html)
             /\ \A k \in 1..Len(e.html) :
                  IF IsRef(e.html[k], keys)
                    THEN e.out[k] =
                           [t |-> "attr", attr |-> e.html[k].attr, quote |-> e.html[k].quote,
                            url |-> Addressed(hist[i].urlStyle, manifest,
                                              CHOOSE rel \in RefersTo(e.html[k], keys) : TRUE)]
                    ELSE e.out[k] = e.html[k]

C9_Witness ==
  /\ Len(hist) >= 2
  /\ IsRewrite(hist[2]) /\ hist[2].ran /\ hist[2].urlStyle = "scheme-file"
  /\ \E e \in Range(hist[2].log) :
       /\ Len(e.html) = 2
       /\ IsRef(e.html[1], DOMAIN ManifestOf(hist[2].before).files)
       /\ e.html[1].quote = "'"
       /\ e.html[2].t = "attr" /\ e.html[2].attr = "SRC"
       /\ e.out[1] # e.html[1]

BaseTags(text) == {k \in 1..Len(text) : text[k].t = "base"}

\* C10: when nothing was replaced, the sibling is the source under
\* scheme-file; under path and scheme it holds the base tag once, before
\* </head> when the source holds </head> and at the start when it does not.
C10_Fallback ==
  \A i \in Ops :
    (IsRewrite(hist[i]) /\ hist[i].ran) =>
      LET keys == DOMAIN ManifestOf(hist[i].before).files
      IN \A e \in Range(hist[i].log) :
           (\A k \in 1..Len(e.html) : ~IsRef(e.html[k], keys)) =>
             IF hist[i].urlStyle = "scheme-file" THEN e.out = e.html
             ELSE /\ Cardinality(BaseTags(e.out)) = Cardinality(BaseTags(e.html)) + 1
                  /\ IF \E k \in 1..Len(e.html) : e.html[k] = Lit("</head>")
                       THEN \E k \in 1..Len(e.html) :
                              /\ e.html[k] = Lit("</head>")
                              /\ Len(e.out) = Len(e.html) + 2
                              /\ SubSeq(e.out, 1, k - 1) = SubSeq(e.html, 1, k - 1)
                              /\ e.out[k].t = "base"
                              /\ SubSeq(e.out, k + 2, Len(e.out)) = SubSeq(e.html, k, Len(e.html))
                       ELSE /\ Len(e.out) = Len(e.html) + 2
                            /\ e.out[1].t = "base"
                            /\ SubSeq(e.out, 3, Len(e.out)) = e.html

-----------------------------------------------------------------------------
\* the CIDs of a DAG: a node and everything its links or chunks lead to
RECURSIVE Reach(_)
Reach(c) ==
  {c} \cup (IF "links" \in DOMAIN c THEN UNION {Reach(c.links[n]) : n \in DOMAIN c.links}
            ELSE IF "chunks" \in DOMAIN c THEN Range(c.chunks)
            ELSE {})

CarOf(dir) == dir[<<<<"bundle", "car">>>>]

\* C11: the CAR that packDirectoryToCar writes declares one root, the returned
\* root CID, which is also the manifest's root; its body holds every CID of
\* the imported DAG (all that the importer put, since the writer reads the
\* store after the importer's last record) once and none twice, also when
\* several files or chunks have the same content.
C11_CarContent ==
  \A i \in Ops :
    (hist[i].op = "packDirectoryToCar" /\ hist[i].ok) =>
      LET carFile == CarOf(hist[i].fs) IN
      /\ carFile.roots = <<hist[i].rootCid>>
      /\ ManifestOf(hist[i].fs).root = hist[i].rootCid
      /\ Range(carFile.blocks) = Reach(hist[i].rootCid)
      /\ \A j, k \in 1..Len(carFile.blocks) : carFile.blocks[j] = carFile.blocks[k] => j = k

\* a pack of app.js, sub/bundle.car with the same bytes, and a two-chunk file
\* whose first chunk has those bytes too
C11_Witness ==
  \E i \in Ops :
    /\ hist[i].op = "packDirectoryToCar" /\ hist[i].ok
    /\ {<<AppJs>>, <<SubDir, BundleCar>>, <<SubDir, <<"dir">>, FileBin>>} \subseteq hist[i].imported
    /\ hist[i].before[<<AppJs>>] = hist[i].before[<<SubDir, BundleCar>>]
    /\ FileCid(hist[i].before[<<AppJs>>]) \in Range(CarOf(hist[i].fs).blocks)

-----------------------------------------------------------------------------
IsShim(r) == r.op \in {"closeBundle", "afterEmit", "postbuild"}

UploadThrew(r) == IsShim(r) /\ "doUpload" \in DOMAIN r /\ r.doUpload /\ ~r.upload.ok

\* what the integration leaves in the directory when the upload is off
LocalOutputs(dir) == closeBundle(dir, [env EXCEPT !.IPFS_UPLOAD = "false"], "same").fs

Reported(r) == Range(r.warnings) \cup (IF "stdout" \in DOMAIN r THEN Range(r.stdout) ELSE {})

\* C12: in each of the three integrations, when the upload is enabled and
\* uploadDirectoryViaApi throws, the run still completes, the failure is on
\* the warning channel, the locally computed root CID is still reported, the
\* directory is what the run leaves with the upload off, and the upload saw
\* the directory only after every local output was written.
C12_UploadFailureNonFatal ==
  \A i \in Ops :
    UploadThrew(hist[i]) =>
      /\ hist[i].ok
      /\ "IPFS upload failed" \in Range(hist[i].warnings)
      /\ "IPFS root CID" \in Reported(hist[i])
      /\ hist[i].rootCid = ManifestOf(hist[i].fs).root
      /\ hist[i].fs = LocalOutputs(hist[i].before)
      /\ hist[i].upload.posted = walk(hist[i].fs)

\* each integration has had its upload fail, on a site whose index.html was
\* stamped and rewritten
C12_Witness ==
  /\ Len(hist) >= 2
  /\ \E i, j \in Ops :
       /\ hist[i].op \in {"afterEmit", "closeBundle"} /\ hist[j].op = "postbuild"
       /\ UploadThrew(hist[i]) /\ UploadThrew(hist[j])
       /\ <<<<"index", "ipfs", "html">>>> \in DOMAIN hist[i].fs
       /\ hist[i].fs[<<IndexHtml>>] # hist[i].before[<<IndexHtml>>]

-----------------------------------------------------------------------------
IsOrder(r) == r.op \in {"stampThenRewrite", "rewriteThenStamp"}

\* the same two calls on the same directory in the other order
OtherOrder(r) ==
  IF r.op = "stampThenRewrite" THEN rewriteThenStamp(r.before, r.rootCid, r.urlStyle)
  ELSE stampThenRewrite(r.before, r.rootCid, r.urlStyle)

\* the paths the rewriter wrote in either order
RewriterWrote(r, o) ==
  {r.log[k].outPath : k \in 1..Len(r.log)} \cup {o.log[k].outPath : k \in 1..Len(o.log)}

\* two results agree but for the rewriter's outputs
AgreeButOutputs(r, o) ==
  LET kept == (DOMAIN r.fs) \ RewriterWrote(r, o) IN
  /\ DOMAIN r.fs = DOMAIN o.fs
  /\ [p \in kept |-> r.fs[p]] = [p \in kept |-> o.fs[p]]
  /\ <<IndexHtml>> \in DOMAIN r.fs => r.fs[<<IndexHtml>>] = o.fs[<<IndexHtml>>]
  /\ (~r.stamped /\ ~o.stamped) => r.fs = o.fs

\* C13: the stamper followed by the rewriter leaves the directory that the
\* rewriter followed by the stamper leaves.
C13_OrderIndependent ==
  \A i \in Ops : IsOrder(hist[i]) => hist[i].fs = OtherOrder(hist[i]).fs

\* C13, amended: the two orders leave the same set of files and the same
\* bytes in index.html and in every file the rewriter does not write, and
\* the same directory when the stamper changes nothing; the *.ipfs.html
\* outputs may differ, since the rewriter reads the index.html that the
\* stamper writes.
C13_OrderAmended ==
  \A i \in Ops : IsOrder(hist[i]) => AgreeButOutputs(hist[i], OtherOrder(hist[i]))

\* the stamper changed index.html, the rewriter wrote index.ipfs.html, and the
\* two orders leave different bytes in it
C13_Witness ==
  \E i \in Ops :
    /\ hist[i].op = "rewriteThenStamp" /\ hist[i].stamped
    /\ hist[i].log # <<>>
    /\ hist[i].fs[<<IndexHtml>>] # hist[i].before[<<IndexHtml>>]
    /\ hist[i].fs[<<<<"index", "ipfs", "html">>>>] # OtherOrder(hist[i]).fs[<<<<"index", "ipfs", "html">>>>]

-----------------------------------------------------------------------------
\* the records that carry the directory root: path '', the root directory's
\* name as path, or (with wrapWithDirectory) neither path nor name
IsRootRecord(r) ==
  \/ r.hasPath /\ r.path \in {<<>>, <<DistDir>>}
  \/ wrapWithDirectory /\ ~r.hasPath /\ ~r.hasName

RootRecords(results) == {k \in 1..Len(results) : IsRootRecord(results[k])}

\* C14: for every sequence of result records, uploadDirectoryViaApi returns
\* the root CID of a record that carries the directory root, in the form with
\* path '' and in the form with the root directory's name as path; it throws
\* exactly when no record carries a root; every other record with a
\* non-empty path is in fileCids and is not the root.
C14_RootDetection ==
  \A i \in Ops :
    (hist[i].op = "uploadDirectoryViaApi" /\ "results" \in DOMAIN hist[i]) =>
      LET results == hist[i].results
          roots   == RootRecords(results)
      IN  /\ hist[i].ok <=> roots # {}
          /\ hist[i].ok => hist[i].rootCid \in {results[k].cid : k \in roots}
          /\ hist[i].ok =>
               \A k \in (1..Len(results)) \ roots :
                 (results[k].hasPath /\ results[k].path # <<>>) =>
                   /\ results[k].path \in DOMAIN hist[i].fileCids
                   /\ hist[i].fileCids[results[k].path] = results[k].cid

-----------------------------------------------------------------------------
Started == car.pc # "idle"

\* C15: the chunks reach the file stream, and the file, in the order the
\* writer produced them, and when packDirectoryToCar returns (before the
\* manifest is written) every chunk of the CAR is in the file at carPath and
\* the stream is finished.
C15_CarWriteComplete ==
  Started =>
    /\ car.written = SubSeq(CarChunks(car), 1, Len(car.written))
    /\ car.flushed <= Len(car.written)
    /\ car.flushed > 0 => CarOf(fs) = CarOnDisk(car, car.flushed)
    /\ car.pc = "returned" =>
         /\ hist[Len(hist)].flushed = Len(CarChunks(car))
         /\ hist[Len(hist)].finished

\* C15, the parts that hold: the chunks are written and flushed in order, all
\* of them are handed to the stream before the return, and the file holds the
\* whole CAR once the stream has finished.
C15_InOrder ==
  Started =>
    /\ car.written = SubSeq(CarChunks(car), 1, Len(car.written))
    /\ car.flushed > 0 => CarOf(fs) = CarOnDisk(car, car.flushed)
    /\ car.pc = "returned" => car.written = CarChunks(car) /\ car.streamEnded
    /\ car.finished => CarOf(fs) = CarFile(<<car.root>>, car.store)

\* C15, termination: every started CAR write returns, and its stream finishes
C15_Terminates == Started ~> (car.pc = "returned" /\ car.finished)

-----------------------------------------------------------------------------
\* the other of the two pack functions on the same directory
OtherPack(r) ==
  IF r.op = "packDirectoryToCar"
    THEN computeDirectoryManifest(r.before, AtRoot(ManifestJson), env.IPFS_PACK_DEBUG)
    ELSE packDirectoryToCar(r.before, AtRoot(BundleCar), AtRoot(ManifestJson), env.IPFS_PACK_DEBUG)

\* two directories hold the same files but for the paths of except
SameBut(a, b, except) ==
  /\ (DOMAIN a) \ except = (DOMAIN b) \ except
  /\ [p \in (DOMAIN a) \ except |-> a[p]] = [p \in (DOMAIN a) \ except |-> b[p]]

SameResult(r, o) ==
  /\ r.ok = o.ok
  /\ r.imported = o.imported
  /\ r.rootCid = o.rootCid
  /\ r.fileCids = o.fileCids
  /\ r.ok => ManifestOf(r.fs) = ManifestOf(o.fs)

\* computeDirectoryManifest leaves carPath as it found it
NoCarWritten(r) ==
  r.op = "computeDirectoryManifest" =>
    [p \in DOMAIN r.fs \cap {AtRoot(BundleCar)} |-> r.fs[p]]
      = [p \in DOMAIN r.before \cap {AtRoot(BundleCar)} |-> r.before[p]]

\* C16: on every directory computeDirectoryManifest and packDirectoryToCar
\* import the same files, return the same root CID and file CIDs, write the
\* same manifest and fail together; what they leave differs only at carPath,
\* which computeDirectoryManifest does not write.
C16_SkipCarEquivalent ==
  \A i \in Ops :
    IsPack(hist[i]) =>
      /\ SameResult(hist[i], OtherPack(hist[i]))
      /\ SameBut(hist[i].fs, OtherPack(hist[i]).fs, {AtRoot(BundleCar)})
      /\ NoCarWritten(hist[i])

\* C16 but for ipfs-debug.json: the parts that hold
C16_ButDebugFile ==
  \A i \in Ops :
    IsPack(hist[i]) =>
      /\ SameResult(hist[i], OtherPack(hist[i]))
      /\ SameBut(hist[i].fs, OtherPack(hist[i]).fs, {AtRoot(BundleCar), AtRoot(DebugJson)})
      /\ NoCarWritten(hist[i])
====
